---- MODULE Spec2Model ----
(***************************************************************************)
(* A model of crash_collector/coredump_writer.cc: CoredumpWriter reads a   *)
(* kernel ELF core dump from a forward-only descriptor and writes a        *)
(* trimmed core file plus the auxv and maps files.                         *)
(*                                                                         *)
(* Sizes and layouts are those of a 64-bit build (Elf64_Ehdr, Elf64_Phdr,  *)
(* 8-byte long).  Files are held as the list of extents written to them,   *)
(* in write order; the byte at a position is given by the last extent      *)
(* that covers it.  The byte of the input stream at offset p is named      *)
(* <<"in", p>>.  The auxv and maps files hold the bytes written to them.   *)
(*                                                                         *)
(* A 64-bit quantity is an integer of the model; the operators compute the *)
(* 64-bit result for every value whose magnitude stays below 2^31, and the *)
(* inputs stay inside that range.                                          *)
(***************************************************************************)
EXTENDS Integers, Sequences, FiniteSets, TLC

VARIABLES
    pc,                        \* position inside WriteCoredump / WriteCoredumpToFD
    src,                       \* the input stream behind fd_src_
    reader,                    \* FdReader: bytes_read_ and the descriptor's position
    dest_file,                 \* the file at coredump_filename_
    dest_on_entry,             \* the file at coredump_filename_ when WriteCoredump was called
    auxv_file,                 \* the file at proc_files_dir_/auxv
    maps_file,                 \* the file at proc_files_dir_/maps
    elf_header,
    program_headers,
    note_buf,
    file_mappings,
    program_headers_filtered,
    coredump_size_limit_,
    expected_coredump_size_,
    idx,                       \* loop variable i of the two write loops
    result,                    \* value returned by WriteCoredumpToFD / WriteCoredump
    last_call                  \* the last FdReader call made directly, with its return value

vars == << pc, src, reader, dest_file, dest_on_entry, auxv_file, maps_file,
           elf_header, program_headers, note_buf, file_mappings,
           program_headers_filtered, coredump_size_limit_,
           expected_coredump_size_, idx, result, last_call >>

(***************************************************************************)
(* Program constants.                                                      *)
(***************************************************************************)
kMaxCoredumpSize == 268435456
FreeSpaceDivisor == 20
SizeofEhdr == 64
SizeofPhdr == 56
SizeofLong == 8
kInvalidValue == -1
kMapsBufSize == 1024
PT_LOAD == 1
PT_NOTE == 4
NT_FILE == 1179208773
NT_AUXV == 6
PF_X == 1
PF_W == 2
PF_R == 4
ELFCLASS64 == 2
EV_CURRENT == 1
ET_CORE == 4
ELFMAG == << 127, 69, 76, 70 >>

(***************************************************************************)
(* Bounds of the model.                                                    *)
(***************************************************************************)
MaxPhnum == 4
MaxFileCount == 3
MaxStreamLen == 4

Min(a, b) == IF a < b THEN a ELSE b

NoFile == [exists |-> FALSE, data |-> << >>]
EmptyFile == [exists |-> TRUE, data |-> << >>]

NoMappings == [k \in {} |-> [offset |-> 0, path |-> << >>]]

RECURSIVE SeqsUpTo(_, _)
SeqsUpTo(S, n) ==
    IF n = 0 THEN { << >> }
    ELSE LET shorter == SeqsUpTo(S, n - 1)
         IN  shorter \cup { Append(s, x) : s \in shorter, x \in S }

(***************************************************************************)
(* FilterSegments                                                          *)
(***************************************************************************)
FileRange(ph) == << ph.p_vaddr, ph.p_vaddr + ph.p_memsz >>

IsFileBackedAnyType(ph, mappings) ==
    FileRange(ph) \in DOMAIN mappings

IsFileBacked(ph, mappings) ==
    ph.p_type = PT_LOAD /\ FileRange(ph) \in DOMAIN mappings

AlignOffsetNoRound(offset, align) == offset

AlignOffset(offset, align) ==
    IF align # 0 /\ (offset % align) # 0
    THEN offset + (align - (offset % align))
    ELSE offset

FilterSegments(phs, mappings) ==
    LET filtered[i \in 1..Len(phs)] ==
            IF i = 1 THEN phs[1]
            ELSE LET prev == filtered[i - 1]
                     out  == phs[i]
                     fsz  == IF IsFileBacked(out, mappings) THEN 0 ELSE out.p_filesz
                 IN  [out EXCEPT !.p_filesz = fsz,
                                 !.p_offset = AlignOffset(prev.p_offset + prev.p_filesz,
                                                          out.p_align)]
    IN  [i \in 1..Len(phs) |-> filtered[i]]

(***************************************************************************)
(* Note descriptions are byte sequences; offset o is element o + 1.        *)
(* GetData<T>(offset) of breakpad's MemoryRange gives a null pointer       *)
(* unless offset < length and offset + sizeof(T) <= length.                *)
(***************************************************************************)
Covers(desc, offset, size) ==
    offset >= 0 /\ offset < Len(desc) /\ offset + size <= Len(desc)

RECURSIVE LittleEndian(_)
LittleEndian(bytes) ==
    IF bytes = << >> THEN 0 ELSE Head(bytes) + 256 * LittleEndian(Tail(bytes))

\* The long held by sizeof(long) bytes: little endian, two's complement.  A
\* word whose top bit is set is the negative value -(1 + value of the
\* complemented bytes).
LongValue(bytes) ==
    IF bytes[Len(bytes)] >= 128
    THEN -(1 + LittleEndian([i \in 1..Len(bytes) |-> 255 - bytes[i]]))
    ELSE LittleEndian(bytes)

GetLongFromNote(desc, offset, default_value) ==
    IF Covers(desc, offset, SizeofLong)
    THEN LongValue(SubSeq(desc, offset + 1, offset + SizeofLong))
    ELSE default_value

GetCharFromNote(desc, offset, default_value) ==
    IF Covers(desc, offset, 1) THEN desc[offset + 1] ELSE default_value

\* while (note.IsValid() && note.GetType() != type) note = note.GetNextNote();
\* the index of the note found, 0 when the walk ends on an invalid note.
RECURSIVE LocateNote(_, _, _)
LocateNote(notes, type, i) ==
    IF i > Len(notes) THEN 0
    ELSE IF notes[i].type = type THEN i
    ELSE LocateNote(notes, type, i + 1)

\* The while (true) loop of lines 322-327: characters are pushed onto the
\* path up to the first offset that reads as 0 (a terminator, or any offset
\* outside the description); filename_pos ends one past that offset.
ReadFileName(desc, filename_pos, path) ==
    LET last == IF filename_pos > Len(desc) THEN filename_pos ELSE Len(desc)
        stop == CHOOSE p \in filename_pos..last :
                    /\ GetCharFromNote(desc, p, 0) = 0
                    /\ \A q \in filename_pos..(p - 1) : GetCharFromNote(desc, q, 0) # 0
    IN  [pos |-> stop + 1, path |-> path \o SubSeq(desc, filename_pos + 1, stop)]

\* FileInfo& info = (*file_mappings)[key]: the entry under key, value
\* initialised when the key is new.
MapSubscript(mappings, key) ==
    IF key \in DOMAIN mappings THEN mappings[key] ELSE [offset |-> 0, path |-> << >>]

MapPut(mappings, key, info) ==
    [k \in DOMAIN mappings \cup {key} |-> IF k = key THEN info ELSE mappings[k]]

\* The for loop of lines 306-328, from iteration i on.
RECURSIVE ReadFileEntries(_, _, _, _, _, _)
ReadFileEntries(desc, i, file_count, page_size, filename_pos, mappings) ==
    IF ~(i < file_count) THEN [ok |-> TRUE, mappings |-> mappings]
    ELSE LET start  == GetLongFromNote(desc, SizeofLong * (2 + 3 * i), kInvalidValue)
             end    == GetLongFromNote(desc, SizeofLong * (2 + 3 * i + 1), kInvalidValue)
             offset == GetLongFromNote(desc, SizeofLong * (2 + 3 * i + 2), kInvalidValue)
         IN  IF start = kInvalidValue \/ end = kInvalidValue \/ offset = kInvalidValue
             THEN [ok |-> FALSE, mappings |-> mappings]
             ELSE LET key  == << start, end >>
                      info == MapSubscript(mappings, key)
                      name == ReadFileName(desc, filename_pos, info.path)
                  IN  ReadFileEntries(desc, i + 1, file_count, page_size, name.pos,
                          MapPut(mappings, key,
                                 [offset |-> offset * page_size, path |-> name.path]))

GetFileMappings(notes) ==
    LET n == LocateNote(notes, NT_FILE, 1)
    IN  IF n = 0 THEN [ok |-> FALSE, mappings |-> NoMappings]
        ELSE LET desc       == notes[n].desc
                 file_count == GetLongFromNote(desc, 0, kInvalidValue)
                 page_size  == GetLongFromNote(desc, SizeofLong, kInvalidValue)
             IN  IF file_count = kInvalidValue \/ page_size = kInvalidValue
                 THEN [ok |-> FALSE, mappings |-> NoMappings]
                 ELSE ReadFileEntries(desc, 0, file_count, page_size,
                                      SizeofLong * (2 + 3 * file_count), NoMappings)

(***************************************************************************)
(* The NT_FILE note as the kernel lays it out (the format comment of       *)
(* GetFileMappings), used to build inputs.                                 *)
(***************************************************************************)
\* The n low bytes of v, little endian; dividing and reducing downwards gives
\* the two's complement bytes of a negative v.
RECURSIVE LittleEndianBytes(_, _)
LittleEndianBytes(v, n) ==
    IF n = 0 THEN << >> ELSE << v % 256 >> \o LittleEndianBytes(v \div 256, n - 1)

EncodeLong(v) == LittleEndianBytes(v, SizeofLong)

RECURSIVE Flatten(_)
Flatten(ss) == IF ss = << >> THEN << >> ELSE Head(ss) \o Flatten(Tail(ss))

EncodeFileNote(page_size, files) ==
    EncodeLong(Len(files)) \o EncodeLong(page_size)
    \o Flatten([i \in 1..Len(files) |->
                   EncodeLong(files[i].start) \o EncodeLong(files[i].end)
                   \o EncodeLong(files[i].pgoff)])
    \o Flatten([i \in 1..Len(files) |-> files[i].path \o << 0 >>])

(***************************************************************************)
(* FdReader.  A reader is [bytes_read_, pos]: the member and the position  *)
(* of the descriptor in the stream.  len is the length of the stream;      *)
(* fault is the number of bytes the descriptor still delivers before       *)
(* read() fails with an error, NoFault when it never does.                 *)
(***************************************************************************)
NoFault == -1
kCopyBufSize == 32768

Delivered(r, num_bytes, len, fault) ==
    LET avail == len - r.pos
        upto  == Min(num_bytes, avail)
    IN  IF fault # NoFault /\ fault < upto THEN fault ELSE upto

\* bool Read(void* buf, size_t num_bytes)
ReaderRead(r, num_bytes, len, fault) ==
    LET got == Delivered(r, num_bytes, len, fault)
    IN  IF got = num_bytes
        THEN [ok |-> TRUE,
              reader |-> [bytes_read_ |-> r.bytes_read_ + num_bytes, pos |-> r.pos + got]]
        ELSE [ok |-> FALSE, reader |-> [r EXCEPT !.pos = r.pos + got]]

\* android::base::WriteFully(fd, buf, num_bytes) on a descriptor that stores
\* wfault more bytes before a write() fails (NoFault: no write() fails).  The
\* call stores what the descriptor still takes and fails when that is less
\* than num_bytes; left is what the descriptor takes after the call.
WriteFully(num_bytes, wfault) ==
    IF wfault = NoFault \/ wfault >= num_bytes
    THEN [ok |-> TRUE, stored |-> num_bytes,
          left |-> IF wfault = NoFault THEN NoFault ELSE wfault - num_bytes]
    ELSE [ok |-> FALSE, stored |-> wfault, left |-> 0]

\* The while loop of CopyTo, one read() per step.  rd lists, call by call,
\* the most bytes a read() hands over (a pipe hands over what it holds);
\* calls after the end of the list hand over all they are asked for.  copied
\* is the number of bytes stored in fd_dest so far.
RECURSIVE CopyLoop(_, _, _, _, _, _, _, _)
CopyLoop(r, has_dest, num_bytes, len, fault, wfault, rd, copied) ==
    IF num_bytes = 0 THEN [ok |-> TRUE, copied |-> copied, reader |-> r]
    ELSE LET ask == Min(kCopyBufSize, num_bytes)
             rv  == Delivered(r, IF rd = << >> THEN ask ELSE Min(ask, Head(rd)),
                              len, fault)
             wr  == WriteFully(rv, IF has_dest THEN wfault ELSE NoFault)
         IN  IF rv = 0
             THEN [ok |-> FALSE, copied |-> copied, reader |-> r]
             ELSE IF ~wr.ok
             THEN [ok |-> FALSE, copied |-> copied + wr.stored,
                   reader |-> [r EXCEPT !.pos = r.pos + rv]]
             ELSE CopyLoop([bytes_read_ |-> r.bytes_read_ + rv, pos |-> r.pos + rv],
                           has_dest, num_bytes - rv, len,
                           IF fault = NoFault THEN NoFault ELSE fault - rv,
                           IF has_dest THEN wr.left ELSE wfault,
                           IF rd = << >> THEN rd ELSE Tail(rd),
                           IF has_dest THEN copied + rv ELSE copied)

\* bool CopyTo(int fd_dest, size_t num_bytes).  has_dest: fd_dest != -1.
ReaderCopyTo(r, has_dest, num_bytes, len, fault, wfault, rd) ==
    CopyLoop(r, has_dest, num_bytes, len, fault, wfault, rd, 0)

\* Seek without its guard: offset - bytes_read_ wraps to a huge count.
ReaderSeekNoGuard(r, offset, len, fault) ==
    ReaderCopyTo(r, FALSE,
                 IF offset < r.bytes_read_ THEN kMaxCoredumpSize ELSE offset - r.bytes_read_,
                 len, fault, NoFault, << >>)

\* bool Seek(size_t offset)
ReaderSeek(r, offset, len, fault) ==
    IF offset < r.bytes_read_
    THEN [ok |-> FALSE, copied |-> 0, reader |-> r]
    ELSE ReaderCopyTo(r, FALSE, offset - r.bytes_read_, len, fault, NoFault, << >>)

NewReader == [bytes_read_ |-> 0, pos |-> 0]

\* The fault a call on reader r sees when read() on fd_ fails with an error
\* at the offset rfail of the source (NoFault: read() never fails).
ReadFaultAt(r, rfail) ==
    IF rfail = NoFault \/ rfail < r.pos THEN NoFault ELSE rfail - r.pos

\* The offsets from..to at which read() on the descriptor of the stream can
\* fail, and no failure; a descriptor that gives no errors has only the latter.
ReadErrors(stream, from, to) ==
    { NoFault } \cup (IF stream.eio THEN from..to ELSE {})

(***************************************************************************)
(* ReadUntilNote.  The stream is [ehdr, phdrs, notes, len]: the header at  *)
(* offset 0, the program headers stored at e_phoff, the notes stored at    *)
(* the NOTE segment's offset, and the stream's length.                     *)
(***************************************************************************)
ElfHeaderValid(h) ==
    /\ h.e_ident_mag = ELFMAG
    /\ h.e_ident_class = ELFCLASS64
    /\ h.e_version = EV_CURRENT
    /\ h.e_type = ET_CORE
    /\ h.e_ehsize = SizeofEhdr
    /\ h.e_phentsize = SizeofPhdr

NoHeader == [e_ident_mag |-> << >>, e_ident_class |-> 0, e_version |-> 0, e_type |-> 0,
             e_ehsize |-> 0, e_phentsize |-> 0, e_phoff |-> 0, e_phnum |-> 0]
NoNote == [off |-> 0, len |-> 0, notes |-> << >>]

\* rfail: the source offset at which read() fails with an error.
ReadUntilNote(r, stream, rfail) ==
    LET failed(rd) == [ok |-> FALSE, reader |-> rd, elf_header |-> NoHeader,
                       program_headers |-> << >>, note_buf |-> NoNote]
        r1 == ReaderRead(r, SizeofEhdr, stream.len, ReadFaultAt(r, rfail))
    IN  IF ~r1.ok \/ ~ElfHeaderValid(stream.ehdr) THEN failed(r1.reader)
        ELSE
        LET h  == stream.ehdr
            r2 == ReaderSeek(r1.reader, h.e_phoff, stream.len,
                             ReadFaultAt(r1.reader, rfail))
            r3 == ReaderRead(r2.reader, SizeofPhdr * h.e_phnum, stream.len,
                             ReadFaultAt(r2.reader, rfail))
        IN  IF ~r2.ok THEN failed(r2.reader)
            ELSE IF ~r3.ok THEN failed(r3.reader)
            ELSE IF Len(stream.phdrs) < 1 \/ stream.phdrs[1].p_type # PT_NOTE
            THEN failed(r3.reader)
            ELSE
            LET note == stream.phdrs[1]
                r4 == ReaderSeek(r3.reader, note.p_offset, stream.len,
                                 ReadFaultAt(r3.reader, rfail))
                r5 == ReaderRead(r4.reader, note.p_filesz, stream.len,
                                 ReadFaultAt(r4.reader, rfail))
            IN  IF ~r4.ok THEN failed(r4.reader)
                ELSE IF ~r5.ok THEN failed(r5.reader)
                ELSE [ok |-> TRUE, reader |-> r5.reader, elf_header |-> h,
                      program_headers |-> stream.phdrs,
                      note_buf |-> [off |-> r4.reader.pos, len |-> note.p_filesz,
                                    notes |-> stream.notes]]

(***************************************************************************)
(* Size budget.                                                            *)
(***************************************************************************)
\* min(static_cast<size_t>(f_bavail * f_frsize / 20), kMaxCoredumpSize), with
\* the product divided before it is formed:
\*   (20 q + r) f / 20 = q f + (r f) / 20.
CoredumpSizeLimit(sv) ==
    Min((sv.f_bavail \div FreeSpaceDivisor) * sv.f_frsize
            + ((sv.f_bavail % FreeSpaceDivisor) * sv.f_frsize) \div FreeSpaceDivisor,
        kMaxCoredumpSize)

ExpectedCoredumpSize(filtered) ==
    filtered[Len(filtered)].p_offset + filtered[Len(filtered)].p_filesz

TooLargeNever(expected, limit) == FALSE

TooLarge(expected, limit) == expected > limit

(***************************************************************************)
(* Files.                                                                  *)
(***************************************************************************)
Extent(at, len, kind, ref) == [at |-> at, len |-> len, kind |-> kind, ref |-> ref]

WriteAt(file, at, len, kind, ref) ==
    IF len = 0 THEN file
    ELSE [file EXCEPT !.data = Append(@, Extent(at, len, kind, ref))]

(***************************************************************************)
(* WriteMaps.  Text is a sequence of character codes; the maps file holds  *)
(* the bytes written to it.                                                *)
(***************************************************************************)
HexDigit(d) == IF d < 10 THEN 48 + d ELSE 87 + d

\* The n low hexadecimal digits of v, most significant first; for a negative
\* v these are the digits of its two's complement.
RECURSIVE HexDigits(_, _)
HexDigits(v, n) ==
    IF n = 0 THEN << >> ELSE HexDigits(v \div 16, n - 1) \o << HexDigit(v % 16) >>

RECURSIVE HexLen(_)
HexLen(v) == IF v < 16 THEN 1 ELSE 1 + HexLen(v \div 16)

\* "%0<width>lx" of a long: the value as an unsigned 64-bit number in at
\* least width digits (all 16 digits when the long is negative).
FormatHex(v, width) ==
    IF v < 0 THEN HexDigits(v, 2 * SizeofLong)
    ELSE HexDigits(v, IF HexLen(v) > width THEN HexLen(v) ELSE width)

RECURSIVE DecimalDigits(_)
DecimalDigits(v) ==
    IF v < 10 THEN << 48 + v >> ELSE DecimalDigits(v \div 10) \o << 48 + (v % 10) >>

\* "%d" of an int that is not negative.
FormatDecimal(v) == DecimalDigits(v)

\* The text of "%08lx-%08lx %c%c%c%c %08lx %02x:%02x %d %s\n" for one header.
MapsLine(ph, mappings) ==
    LET range  == FileRange(ph)
        found  == range \in DOMAIN mappings
        offset == IF found THEN mappings[range].offset ELSE 0
        path   == IF found THEN mappings[range].path ELSE << >>
    IN  FormatHex(range[1], 8) \o << 45 >> \o FormatHex(range[2], 8) \o << 32 >>
        \o << IF (ph.p_flags \div PF_R) % 2 = 1 THEN 114 ELSE 45,
              IF (ph.p_flags \div PF_W) % 2 = 1 THEN 119 ELSE 45,
              IF (ph.p_flags \div PF_X) % 2 = 1 THEN 120 ELSE 45,
              112 >>
        \o << 32 >> \o FormatHex(offset, 8)
        \o << 32 >> \o FormatHex(0, 2) \o << 58 >> \o FormatHex(0, 2)
        \o << 32 >> \o FormatDecimal(0)
        \o << 32 >> \o path \o << 10 >>

\* snprintf(buf, size, ...): len is the length of the whole text; buf holds
\* at most size - 1 characters of it and then a NUL.
Snprintf(size, text) ==
    [len |-> Len(text),
     buf |-> SubSeq(text, 1, Min(Len(text), size - 1)) \o << 0 >>]

WantsMapsLine(ph) == ph.p_type = PT_LOAD

\* The for loop of WriteMaps from header i on: the bytes written to the file
\* and the value returned.  wfault is the number of bytes the file stores
\* before a write() fails, NoFault when none fails.
RECURSIVE WriteMaps(_, _, _, _, _)
WriteMaps(phs, mappings, i, data, wfault) ==
    IF i > Len(phs) THEN [ok |-> TRUE, data |-> data]
    ELSE IF ~WantsMapsLine(phs[i]) THEN WriteMaps(phs, mappings, i + 1, data, wfault)
    ELSE LET s == Snprintf(kMapsBufSize, MapsLine(phs[i], mappings))
         IN  IF s.len < 0 \/ s.len > kMapsBufSize
             THEN [ok |-> FALSE, data |-> data]
             ELSE LET wr == WriteFully(s.len, wfault)
                      written == data \o SubSeq(s.buf, 1, wr.stored)
                  IN  IF ~wr.ok THEN [ok |-> FALSE, data |-> written]
                      ELSE WriteMaps(phs, mappings, i + 1, written, wr.left)

\* The descriptors a write can fail on: the points, in bytes stored, at
\* which a write() of num_bytes bytes can fail, and no failure.
WriteFaults(num_bytes) == { NoFault } \cup 0..(num_bytes - 1)

(***************************************************************************)
(* WriteCoredump, step by step.                                            *)
(***************************************************************************)
Unset == -1

StatvfsResults ==
    { [ok |-> FALSE, f_bavail |-> 0, f_frsize |-> 0],
      [ok |-> TRUE, f_bavail |-> 0, f_frsize |-> 4096],
      [ok |-> TRUE, f_bavail |-> 2, f_frsize |-> 4096],
      [ok |-> TRUE, f_bavail |-> 100, f_frsize |-> 4096],
      [ok |-> TRUE, f_bavail |-> 1310740, f_frsize |-> 4096] }

Fail(next_pc) ==
    /\ result' = -1
    /\ pc' = next_pc

\* Lines 117-124: open(O_WRONLY | O_CREAT | O_EXCL).
OpenDest ==
    /\ pc = "open"
    /\ \E open_ok \in BOOLEAN :
          IF dest_file.exists \/ ~open_ok
          THEN /\ Fail("done")
               /\ UNCHANGED dest_file
          ELSE /\ dest_file' = EmptyFile
               /\ pc' = "read_until_note"
               /\ UNCHANGED result
    /\ reader' = NewReader
    /\ UNCHANGED << src, dest_on_entry, auxv_file, maps_file, elf_header,
                    program_headers, note_buf, file_mappings,
                    program_headers_filtered, coredump_size_limit_,
                    expected_coredump_size_, idx, last_call >>

\* Lines 147-153.  rfail: where in the source a read() of ReadUntilNote
\* fails with an error.
DoReadUntilNote ==
    /\ pc = "read_until_note"
    /\ \E rfail \in ReadErrors(src, 0, src.len - 1) :
       LET r == ReadUntilNote(reader, src, rfail)
       IN  /\ reader' = r.reader
           /\ elf_header' = r.elf_header
           /\ program_headers' = r.program_headers
           /\ note_buf' = r.note_buf
           /\ IF r.ok THEN pc' = "get_file_mappings" /\ UNCHANGED result
              ELSE Fail("close")
    /\ UNCHANGED << src, dest_file, dest_on_entry, auxv_file, maps_file,
                    file_mappings, program_headers_filtered,
                    coredump_size_limit_, expected_coredump_size_, idx, last_call >>

\* Lines 155-158.
DoGetFileMappings ==
    /\ pc = "get_file_mappings"
    /\ LET r == GetFileMappings(note_buf.notes)
       IN  /\ file_mappings' = r.mappings
           /\ IF r.ok THEN pc' = "filter_segments" /\ UNCHANGED result
              ELSE Fail("close")
    /\ UNCHANGED << src, reader, dest_file, dest_on_entry, auxv_file, maps_file,
                    elf_header, program_headers, note_buf,
                    program_headers_filtered, coredump_size_limit_,
                    expected_coredump_size_, idx, last_call >>

\* Lines 161-162.
DoFilterSegments ==
    /\ pc = "filter_segments"
    /\ program_headers_filtered' = FilterSegments(program_headers, file_mappings)
    /\ pc' = "size_limit"
    /\ UNCHANGED << src, reader, dest_file, dest_on_entry, auxv_file, maps_file,
                    elf_header, program_headers, note_buf, file_mappings,
                    coredump_size_limit_, expected_coredump_size_, idx, result,
                    last_call >>

\* Lines 165-178.
CheckSizeLimit ==
    /\ pc = "size_limit"
    /\ \E sv \in StatvfsResults :
          IF ~sv.ok
          THEN /\ Fail("close")
               /\ UNCHANGED << coredump_size_limit_, expected_coredump_size_ >>
          ELSE /\ coredump_size_limit_' = CoredumpSizeLimit(sv)
               /\ expected_coredump_size_' = ExpectedCoredumpSize(program_headers_filtered)
               /\ IF TooLarge(expected_coredump_size_', coredump_size_limit_')
                  THEN Fail("close")
                  ELSE pc' = "write_auxv" /\ UNCHANGED result
    /\ UNCHANGED << src, reader, dest_file, dest_on_entry, auxv_file, maps_file,
                    elf_header, program_headers, note_buf, file_mappings,
                    program_headers_filtered, idx, last_call >>

\* Line 181 and WriteAuxv.  open_ok: open(O_WRONLY | O_CREAT | O_EXCL)
\* succeeds when no file is at the path.
DoWriteAuxv ==
    /\ pc = "write_auxv"
    /\ LET n == LocateNote(note_buf.notes, NT_AUXV, 1)
           desc == IF n = 0 THEN << >> ELSE note_buf.notes[n].desc
       IN  \E open_ok \in BOOLEAN, wfault \in WriteFaults(Len(desc)) :
              IF n = 0 \/ auxv_file.exists \/ ~open_ok
              THEN Fail("close") /\ UNCHANGED auxv_file
              ELSE LET wr == WriteFully(Len(desc), wfault)
                   IN  /\ auxv_file' = [exists |-> TRUE,
                                        data |-> SubSeq(desc, 1, wr.stored)]
                       /\ IF wr.ok THEN pc' = "write_maps" /\ UNCHANGED result
                          ELSE Fail("close")
    /\ UNCHANGED << src, reader, dest_file, dest_on_entry, maps_file, elf_header,
                    program_headers, note_buf, file_mappings,
                    program_headers_filtered, coredump_size_limit_,
                    expected_coredump_size_, idx, last_call >>

\* Line 182 and WriteMaps.
DoWriteMaps ==
    /\ pc = "write_maps"
    /\ LET whole == WriteMaps(program_headers, file_mappings, 1, << >>, NoFault)
       IN  \E open_ok \in BOOLEAN, wfault \in WriteFaults(Len(whole.data)) :
              IF maps_file.exists \/ ~open_ok
              THEN Fail("close") /\ UNCHANGED maps_file
              ELSE LET r == WriteMaps(program_headers, file_mappings, 1, << >>, wfault)
                   IN  /\ maps_file' = [exists |-> TRUE, data |-> r.data]
                       /\ IF r.ok THEN pc' = "write_elf_header" /\ UNCHANGED result
                          ELSE Fail("close")
    /\ UNCHANGED << src, reader, dest_file, dest_on_entry, auxv_file, elf_header,
                    program_headers, note_buf, file_mappings,
                    program_headers_filtered, coredump_size_limit_,
                    expected_coredump_size_, idx, last_call >>

\* Lines 187-190.
WriteElfHeader ==
    /\ pc = "write_elf_header"
    /\ \E wfault \in WriteFaults(SizeofEhdr) :
          LET wr == WriteFully(SizeofEhdr, wfault)
          IN  /\ dest_file' = WriteAt(dest_file, 0, wr.stored, "in", 0)
              /\ IF wr.ok
                 THEN idx' = 0 /\ pc' = "write_program_headers" /\ UNCHANGED result
                 ELSE Fail("close") /\ UNCHANGED idx
    /\ UNCHANGED << src, reader, dest_on_entry, auxv_file, maps_file, elf_header,
                    program_headers, note_buf, file_mappings,
                    program_headers_filtered, coredump_size_limit_,
                    expected_coredump_size_, last_call >>

\* Lines 192-201, one iteration.  seek_ok: the lseek of line 195 on fd_dest
\* gives the offset asked for.
WriteProgramHeader ==
    /\ pc = "write_program_headers"
    /\ IF idx < Len(program_headers_filtered)
       THEN \E seek_ok \in BOOLEAN, wfault \in WriteFaults(SizeofPhdr) :
               LET wr == WriteFully(SizeofPhdr, wfault)
               IN  IF ~seek_ok
                   THEN Fail("close") /\ UNCHANGED << dest_file, idx >>
                   ELSE /\ dest_file' = WriteAt(dest_file,
                                                SizeofEhdr + idx * elf_header.e_phentsize,
                                                wr.stored, "phdr", idx)
                        /\ IF wr.ok THEN idx' = idx + 1 /\ UNCHANGED << pc, result >>
                           ELSE Fail("close") /\ UNCHANGED idx
       ELSE /\ pc' = "write_note"
            /\ UNCHANGED << dest_file, idx, result >>
    /\ UNCHANGED << src, reader, dest_on_entry, auxv_file, maps_file, elf_header,
                    program_headers, note_buf, file_mappings,
                    program_headers_filtered, coredump_size_limit_,
                    expected_coredump_size_, last_call >>

\* Lines 203-207.  seek_ok: the lseek of line 203.
WriteNote ==
    /\ pc = "write_note"
    /\ \E seek_ok \in BOOLEAN, wfault \in WriteFaults(note_buf.len) :
          LET wr == WriteFully(note_buf.len, wfault)
          IN  IF ~seek_ok
              THEN Fail("close") /\ UNCHANGED << dest_file, idx >>
              ELSE /\ dest_file' = WriteAt(dest_file, program_headers_filtered[1].p_offset,
                                           wr.stored, "in", note_buf.off)
                   /\ IF wr.ok
                      THEN idx' = 1 /\ pc' = "write_segments" /\ UNCHANGED result
                      ELSE Fail("close") /\ UNCHANGED idx
    /\ UNCHANGED << src, reader, dest_on_entry, auxv_file, maps_file, elf_header,
                    program_headers, note_buf, file_mappings,
                    program_headers_filtered, coredump_size_limit_,
                    expected_coredump_size_, last_call >>

SegmentSourceOffsetFiltered(original, filtered) == filtered.p_offset

\* Line 213: the reader is moved to the offset of the original header.
SegmentSourceOffset(original, filtered) == original.p_offset

\* Every list of read() results a copy of num_bytes bytes can see: any number
\* of reads, each handing over one byte or more, of num_bytes bytes at most
\* altogether (lines 77-78).  A call past the end of the list is a full read.
RECURSIVE ReadLimits(_)
ReadLimits(num_bytes) ==
    { << >> } \cup UNION { { << k >> \o rest : rest \in ReadLimits(num_bytes - k) } :
                              k \in 1..num_bytes }

\* Lines 209-224, one iteration; the return of line 224 when the loop ends.
\* The copy of line 221 is tried with every list of read() results, with a
\* read() failing at every offset it reads and with a write() failing after
\* every count of bytes of the segment.
\* seek_ok: the lseek of line 217 on fd_dest gives the offset asked for.
WriteSegment ==
    /\ pc = "write_segments"
    /\ IF idx < Len(program_headers_filtered)
       THEN LET program_header == program_headers_filtered[idx + 1]
                program_header_original == program_headers[idx + 1]
                offset == SegmentSourceOffset(program_header_original, program_header)
            IN  IF program_header.p_filesz > 0
                THEN \E seek_ok \in BOOLEAN,
                        rfail \in ReadErrors(src, reader.pos,
                                             offset + program_header.p_filesz - 1) :
                        LET sk == ReaderSeek(reader, offset, src.len,
                                             ReadFaultAt(reader, rfail))
                        IN  IF ~sk.ok \/ ~seek_ok
                            THEN /\ reader' = sk.reader
                                 /\ Fail("close")
                                 /\ UNCHANGED << dest_file, idx >>
                            ELSE \E wfault \in WriteFaults(program_header.p_filesz),
                                    rd \in ReadLimits(program_header.p_filesz) :
                                    LET cp == ReaderCopyTo(sk.reader, TRUE,
                                                  program_header.p_filesz, src.len,
                                                  ReadFaultAt(sk.reader, rfail), wfault, rd)
                                    IN  /\ reader' = cp.reader
                                        /\ dest_file' =
                                              WriteAt(dest_file, program_header.p_offset,
                                                      cp.copied, "in", sk.reader.pos)
                                        /\ IF cp.ok
                                           THEN idx' = idx + 1 /\ UNCHANGED << pc, result >>
                                           ELSE Fail("close") /\ UNCHANGED idx
                ELSE /\ idx' = idx + 1
                     /\ UNCHANGED << reader, dest_file, pc, result >>
       ELSE /\ result' = expected_coredump_size_
            /\ pc' = "close"
            /\ UNCHANGED << reader, dest_file, idx >>
    /\ UNCHANGED << src, dest_on_entry, auxv_file, maps_file, elf_header,
                    program_headers, note_buf, file_mappings,
                    program_headers_filtered, coredump_size_limit_,
                    expected_coredump_size_, last_call >>

\* Lines 126-129.  unlink_ok: the unlink of line 128 removes the file; the
\* code does not look at what unlink returns.
CloseAndReturn ==
    /\ pc = "close"
    /\ \E unlink_ok \in BOOLEAN :
          dest_file' = IF result = -1 /\ unlink_ok THEN NoFile ELSE dest_file
    /\ pc' = "done"
    /\ UNCHANGED << src, reader, dest_on_entry, auxv_file, maps_file, elf_header,
                    program_headers, note_buf, file_mappings,
                    program_headers_filtered, coredump_size_limit_,
                    expected_coredump_size_, idx, result, last_call >>

Next ==
    \/ OpenDest
    \/ DoReadUntilNote
    \/ DoGetFileMappings
    \/ DoFilterSegments
    \/ CheckSizeLimit
    \/ DoWriteAuxv
    \/ DoWriteMaps
    \/ WriteElfHeader
    \/ WriteProgramHeader
    \/ WriteNote
    \/ WriteSegment
    \/ CloseAndReturn

(***************************************************************************)
(* Inputs.                                                                 *)
(***************************************************************************)
Phdr(type, flags, offset, vaddr, filesz, memsz, align) ==
    [p_type |-> type, p_flags |-> flags, p_offset |-> offset, p_vaddr |-> vaddr,
     p_paddr |-> 0, p_filesz |-> filesz, p_memsz |-> memsz, p_align |-> align]

GoodHeader(phoff, phnum) ==
    [e_ident_mag |-> ELFMAG, e_ident_class |-> ELFCLASS64, e_version |-> EV_CURRENT,
     e_type |-> ET_CORE, e_ehsize |-> SizeofEhdr, e_phentsize |-> SizeofPhdr,
     e_phoff |-> phoff, e_phnum |-> phnum]

BadHeaders(phoff, phnum) ==
    LET h == GoodHeader(phoff, phnum)
    IN  { [h EXCEPT !.e_ident_mag = << 127, 69, 76, 71 >>],
          [h EXCEPT !.e_ident_class = 1],       \* ELFCLASS32
          [h EXCEPT !.e_version = 0],           \* EV_NONE
          [h EXCEPT !.e_type = 2],              \* ET_EXEC
          [h EXCEPT !.e_ehsize = 52],
          [h EXCEPT !.e_phentsize = 32] }

\* The size of a NOTE segment holding the notes: each note is a 12-byte
\* header, the name "CORE" padded to 8 bytes and the description padded to 4.
RoundUp(n, m) == IF m # 0 /\ (n % m) # 0 THEN n + (m - (n % m)) ELSE n

RECURSIVE NoteSize(_)
NoteSize(notes) ==
    IF notes = << >> THEN 0
    ELSE 12 + 8 + RoundUp(Len(Head(notes).desc), 4) + NoteSize(Tail(notes))

FileEntry(start, end, pgoff, path) ==
    [start |-> start, end |-> end, pgoff |-> pgoff, path |-> path]

FileTable == << FileEntry(16, 32, 1, << 97 >>), FileEntry(48, 64, 0, << 98, 99 >>) >>

PrstatusNote == [type |-> 1, desc |-> << 1, 2, 3, 4 >>]
AuxvNote == [type |-> NT_AUXV, desc |-> << 6, 0, 0, 0, 0, 0, 0, 0, 0, 16, 0, 0, 0, 0, 0, 0 >>]
FileNote(page_size, files) == [type |-> NT_FILE, desc |-> EncodeFileNote(page_size, files)]

GoodNotes == << PrstatusNote, AuxvNote, FileNote(4096, FileTable) >>

\* The headers of a stream: NOTE right after the program-header table, then
\* the segments one after the other, each at the next offset its own
\* alignment allows.
RECURSIVE PlaceSegments(_, _)
PlaceSegments(placed, segs) ==
    IF segs = << >> THEN placed
    ELSE LET prev == placed[Len(placed)]
             seg  == Head(segs)
         IN  PlaceSegments(
                 Append(placed,
                        [seg EXCEPT !.p_offset =
                            RoundUp(prev.p_offset + prev.p_filesz, seg.p_align)]),
                 Tail(segs))

Layout(phoff, notes, segs) ==
    PlaceSegments(<< Phdr(PT_NOTE, 0, phoff + (1 + Len(segs)) * SizeofPhdr, 0,
                          NoteSize(notes), 0, 0) >>, segs)

RECURSIVE EndOfData(_)
EndOfData(phs) ==
    IF phs = << >> THEN 0
    ELSE LET rest == EndOfData(Tail(phs))
             end  == Head(phs).p_offset + Head(phs).p_filesz
         IN  IF end > rest THEN end ELSE rest

\* eio: read() on the descriptor of the stream can fail with an error.
Stream(ehdr, phdrs, notes, len) ==
    [ehdr |-> ehdr, phdrs |-> phdrs, notes |-> notes, len |-> len, eio |-> FALSE]

WithReadErrors(stream) == [stream EXCEPT !.eio = TRUE]

\* A well-formed stream with the given segments, cut short by `missing` bytes.
CoreStream(phoff, notes, segs, missing) ==
    LET phdrs == Layout(phoff, notes, segs)
    IN  Stream(GoodHeader(phoff, Len(phdrs)), phdrs, notes,
               Min(EndOfData(phdrs), kMaxCoredumpSize * 2) - missing)

SegFileBacked == Phdr(PT_LOAD, 5, 0, 16, 16, 16, 16)
SegAnonymous == Phdr(PT_LOAD, 6, 0, 64, 4, 16, 16)
SegOddSize == Phdr(PT_LOAD, 6, 0, 96, 5, 16, 4)
\* A header of another type (PT_GNU_STACK) over a mapped range.
SegNotLoad == Phdr(1685382481, 6, 0, 48, 3, 16, 0)
SegFileBackedAtZero == Phdr(PT_LOAD, 4, 0, 48, 8, 16, 8)
SegHuge == Phdr(PT_LOAD, 6, 0, 128, kMaxCoredumpSize, kMaxCoredumpSize, 16)

\* The segments a run copies hold five bytes at most, so that every way of
\* reading and of failing to write one is a step of WriteSegment.
SegmentPool ==
    { SegFileBacked, SegAnonymous, SegNotLoad, SegFileBackedAtZero }

\* A path whose maps line is longer than the buffer of WriteMaps, and one
\* whose line is exactly as long as the buffer.
LongPath == [i \in 1..990 |-> 97]
FullPath == [i \in 1..983 |-> 97]

TruncatedTo(stream, len) == [stream EXCEPT !.len = len]

RunStreams ==
    { CoreStream(SizeofEhdr, GoodNotes, segs, 0) :
          segs \in SeqsUpTo(SegmentPool, MaxPhnum - 1) }
    \cup { CoreStream(SizeofEhdr, GoodNotes, segs, missing) :
              segs \in { << SegOddSize >>, << SegAnonymous, SegOddSize >>,
                         << SegOddSize, SegAnonymous >>, << SegFileBacked, SegOddSize >> },
              missing \in {0, 1} }
    \cup { CoreStream(SizeofEhdr, GoodNotes, segs, 1) :
              segs \in { << SegAnonymous >>, << SegFileBacked, SegAnonymous >>,
                         << SegAnonymous, SegFileBacked >> } }
    \cup { CoreStream(phoff, GoodNotes, << SegAnonymous, SegFileBacked >>, 0) :
              phoff \in {0, 72} }
    \cup { [CoreStream(SizeofEhdr, GoodNotes, << SegAnonymous >>, 0) EXCEPT !.ehdr = h] :
              h \in BadHeaders(SizeofEhdr, 2) }
    \cup { CoreStream(SizeofEhdr, notes, << SegFileBacked, SegAnonymous >>, 0) :
              notes \in { << PrstatusNote, AuxvNote >>,
                          << PrstatusNote, FileNote(4096, FileTable) >>,
                          << >>,
                          << AuxvNote,
                             FileNote(4096, << FileEntry(16, 32, 1, LongPath) >>) >>,
                          << AuxvNote,
                             FileNote(4096, << FileEntry(16, 32, 1, FullPath) >>) >>,
                          << AuxvNote,
                             FileNote(4096, << FileEntry(16, 32, -2, << 97 >>) >>) >> } }
    \cup { CoreStream(SizeofEhdr,
                      << AuxvNote, [type |-> NT_FILE,
                                    desc |-> EncodeLong(-2) \o EncodeLong(4096)] >>,
                      << SegAnonymous, SegOddSize >>, 0) }
    \cup { TruncatedTo(CoreStream(SizeofEhdr, GoodNotes, << SegAnonymous >>, 0), len) :
              len \in {0, 30, 100, 200} }
    \cup { CoreStream(SizeofEhdr, GoodNotes, << SegAnonymous, SegHuge >>, kMaxCoredumpSize) }
    \cup { LET st == CoreStream(SizeofEhdr, GoodNotes, << SegAnonymous, SegOddSize >>, 0)
           IN  [st EXCEPT !.phdrs[3].p_offset = st.phdrs[2].p_offset] }
    \cup { LET st == CoreStream(SizeofEhdr, GoodNotes, << SegAnonymous >>, 0)
           IN  [st EXCEPT !.phdrs[1].p_type = PT_LOAD] }
    \cup { LET st == CoreStream(SizeofEhdr, GoodNotes, << SegAnonymous >>, 0)
           IN  [st EXCEPT !.phdrs[1].p_offset = SizeofEhdr + SizeofPhdr] }
    \cup { Stream(GoodHeader(SizeofEhdr, 0), << >>, << >>, SizeofEhdr) }

OldDest == [exists |-> TRUE, data |-> << Extent(0, 3, "old", 0) >>]
OldAuxv == [exists |-> TRUE, data |-> << 111, 108, 100 >>]
OldMaps == [exists |-> TRUE, data |-> << 111, 108, 100, 10 >>]

ProcFiles == { << NoFile, NoFile >>, << OldAuxv, NoFile >>, << NoFile, OldMaps >> }

NoCall == [op |-> "none", arg |-> 0, ok |-> TRUE, before |-> NewReader]

InitWith(streams, dests, procs) ==
    /\ pc = "open"
    /\ src \in streams
    /\ reader = NewReader
    /\ dest_file \in dests
    /\ dest_on_entry = dest_file
    /\ \E p \in procs : auxv_file = p[1] /\ maps_file = p[2]
    /\ elf_header = NoHeader
    /\ program_headers = << >>
    /\ note_buf = NoNote
    /\ file_mappings = NoMappings
    /\ program_headers_filtered = << >>
    /\ coredump_size_limit_ = Unset
    /\ expected_coredump_size_ = Unset
    /\ idx = 0
    /\ result = 0
    /\ last_call = NoCall

Init == InitWith({ WithReadErrors(s) : s \in RunStreams }, { NoFile, OldDest }, ProcFiles)

Spec == Init /\ [][Next]_vars

(***************************************************************************)
(* What a file holds.                                                      *)
(***************************************************************************)
RECURSIVE FileSize(_)
FileSize(data) ==
    IF data = << >> THEN 0
    ELSE LET rest == FileSize(Tail(data))
             end  == Head(data).at + Head(data).len
         IN  IF end > rest THEN end ELSE rest

\* The input offset of the byte the file holds at position p; -1 when the
\* position holds no byte of the input.
InputByteAt(data, p) ==
    LET over == { j \in 1..Len(data) : data[j].at <= p /\ p < data[j].at + data[j].len }
    IN  IF over = {} THEN -1
        ELSE LET j == CHOOSE k \in over : \A m \in over : m <= k
             IN  IF data[j].kind = "in" THEN data[j].ref + (p - data[j].at) ELSE -1

\* The region [at, at + len) of the file holds the input's [from, from + len).
HoldsInput(data, at, len, from) ==
    \A k \in 0..(len - 1) : InputByteAt(data, at + k) = from + k

Succeeded == pc = "done" /\ result # -1
Failed == pc = "done" /\ result = -1

(***************************************************************************)
(* C1: a run of WriteCoredump that returns -1 leaves the destination path  *)
(* as it found it: no file when there was none on entry, the same file     *)
(* with the same content when there was one.  Violated: the result of the  *)
(* unlink of line 128 is ignored, and when it fails the file the run       *)
(* created, empty or partly written, is still there on return.             *)
(***************************************************************************)
C1_FailureLeavesDestinationAsFound ==
    Failed => dest_file = dest_on_entry

(***************************************************************************)
(* C2: when the expected size exceeds the limit.                           *)
(***************************************************************************)
SizeExceeded ==
    /\ expected_coredump_size_ # Unset
    /\ expected_coredump_size_ > coredump_size_limit_

C3_ReturnedSizeIsFileSize ==
    Succeeded => result = FileSize(dest_file.data)

(***************************************************************************)
(* C8: the maps file, read back as text.                                   *)
(***************************************************************************)
IsLoad(ph) == ph.p_type = PT_LOAD
LoadHeaders == SelectSeq(program_headers, IsLoad)
MapsWritten == pc = "write_elf_header"

\* The pieces of seq between the occurrences of the character c.
SplitOn(seq, c) ==
    LET at == { p \in 1..Len(seq) : seq[p] = c }
        n  == Cardinality(at)
        cut(k) == IF k = 0 THEN 0
                  ELSE IF k = n + 1 THEN Len(seq) + 1
                  ELSE CHOOSE p \in at : Cardinality({ q \in at : q < p }) = k - 1
    IN  [k \in 1..(n + 1) |-> SubSeq(seq, cut(k - 1) + 1, cut(k) - 1)]

HexValue(c) == IF c >= 97 THEN c - 87 ELSE c - 48

RECURSIVE HexNumber(_)
HexNumber(values) ==
    IF values = << >> THEN 0
    ELSE 16 * HexNumber(SubSeq(values, 1, Len(values) - 1)) + values[Len(values)]

\* The long a field of hexadecimal digits stands for.
ParseHex(digits) ==
    IF Len(digits) = 2 * SizeofLong /\ HexValue(digits[1]) >= 8
    THEN -(1 + HexNumber([i \in 1..Len(digits) |-> 15 - HexValue(digits[i])]))
    ELSE HexNumber([i \in 1..Len(digits) |-> HexValue(digits[i])])

\* C8: the maps file consists of one line per LOAD header of the original
\* list, in order, and none for other types; a line's offset field is 0 if
\* and only if the header's range is not a key of the file mappings.
C8_OneLinePerLoadOffsetZeroIffNoMapping ==
    MapsWritten =>
        LET pieces == SplitOn(maps_file.data, 10)
            lines  == SubSeq(pieces, 1, Len(pieces) - 1)
        IN  /\ pieces[Len(pieces)] = << >>
            /\ Len(lines) = Len(LoadHeaders)
            /\ \A j \in 1..Len(LoadHeaders) :
                  LET fields == SplitOn(lines[j], 32)
                      range  == SplitOn(fields[1], 45)
                  IN  /\ Len(fields) = 6
                      /\ Len(range) = 2
                      /\ ParseHex(range[1]) = LoadHeaders[j].p_vaddr
                      /\ ParseHex(range[2])
                            = LoadHeaders[j].p_vaddr + LoadHeaders[j].p_memsz
                      /\ (ParseHex(fields[3]) = 0
                            <=> FileRange(LoadHeaders[j]) \notin DOMAIN file_mappings)

(***************************************************************************)
(* C10: on every successful run the destination file holds the input's     *)
(* NOTE bytes at the offset of entry 0 and, for every kept segment, the     *)
(* input's bytes from the original offset at the filtered offset; the      *)
(* regions are written in increasing offset order and none overwrites      *)
(* another.                                                                *)
(***************************************************************************)
C10_SegmentsCopiedInOrder ==
    Succeeded =>
        LET data == dest_file.data
        IN  /\ program_headers_filtered[1].p_offset = program_headers[1].p_offset
            /\ HoldsInput(data, program_headers[1].p_offset,
                          program_headers[1].p_filesz, program_headers[1].p_offset)
            /\ \A i \in 2..Len(program_headers) :
                  program_headers_filtered[i].p_filesz > 0 =>
                      HoldsInput(data, program_headers_filtered[i].p_offset,
                                 program_headers_filtered[i].p_filesz,
                                 program_headers[i].p_offset)
            /\ \A j \in 2..Len(data) : data[j].at >= data[j - 1].at + data[j - 1].len

\* A successful run that moved a kept segment to a smaller offset.
C10_Witness ==
    /\ Succeeded
    /\ \E i \in 2..Len(program_headers) :
          /\ program_headers_filtered[i].p_filesz > 0
          /\ program_headers_filtered[i].p_offset < program_headers[i].p_offset

(***************************************************************************)
(* FilterSegments on its own: streams whose headers after the NOTE are     *)
(* arbitrary, run up to the end of FilterSegments.                         *)
(***************************************************************************)
FilterPool ==
    { Phdr(PT_LOAD, 5, 0, 16, 16, 16, 16),
      Phdr(PT_LOAD, 6, 300, 16, 7, 16, 0),
      Phdr(PT_LOAD, 6, 512, 16, 8, 8, 4),
      Phdr(PT_LOAD, 6, 512, 24, 8, 16, 4),
      Phdr(1685382481, 6, 0, 16, 6, 16, 4),
      Phdr(PT_LOAD, 4, 700, 64, 5, 16, 1),
      Phdr(PT_LOAD, 6, 64, 64, 0, 16, 16),
      Phdr(PT_LOAD, 7, 4096, 48, 9, 16, 8) }

FilterTables ==
    { FileTable, << >>, << FileEntry(64, 80, 3, << 100 >>) >> }

\* A NOTE header `gap` bytes after the program-header table.
FilterStream(gap, align, table, rest) ==
    LET notes == << AuxvNote, FileNote(4096, table) >>
        first == Phdr(PT_NOTE, 0, SizeofEhdr + (1 + Len(rest)) * SizeofPhdr + gap, 0,
                      NoteSize(notes), 0, align)
        phdrs == << first >> \o rest
    IN  Stream(GoodHeader(SizeofEhdr, Len(phdrs)), phdrs, notes,
               first.p_offset + first.p_filesz)

FilterStreams ==
    { FilterStream(gap, align, table, rest) :
          gap \in {0, 1}, align \in {0, 4}, table \in FilterTables,
          rest \in SeqsUpTo(FilterPool, MaxPhnum - 1) }

InitFilter == InitWith(FilterStreams, { NoFile }, { << NoFile, NoFile >> })

NextFilter ==
    \/ OpenDest
    \/ DoReadUntilNote
    \/ DoGetFileMappings
    \/ DoFilterSegments

SpecFilter == InitFilter /\ [][NextFilter]_vars

Filtered == pc = "size_limit"

\* C4 as claimed: in the list FilterSegments produces, every entry, entry 0
\* included, has an offset that is a multiple of its non-zero alignment, and
\* offsets never decrease.
C4_AllOffsetsAligned ==
    Filtered =>
        /\ \A i \in 1..Len(program_headers_filtered) :
              program_headers_filtered[i].p_align # 0 =>
                  program_headers_filtered[i].p_offset
                      % program_headers_filtered[i].p_align = 0
        /\ \A i \in 2..Len(program_headers_filtered) :
              program_headers_filtered[i].p_offset
                  >= program_headers_filtered[i - 1].p_offset

\* C4 as amended: every entry after entry 0 has an offset that is a multiple
\* of its non-zero alignment and not below the end of the entry before it
\* (so offsets never decrease); entry 0 keeps the offset of the input.
C4_LaterOffsetsAligned ==
    Filtered =>
        /\ program_headers_filtered[1].p_offset = program_headers[1].p_offset
        /\ \A i \in 2..Len(program_headers_filtered) :
              /\ program_headers_filtered[i].p_align # 0 =>
                    program_headers_filtered[i].p_offset
                        % program_headers_filtered[i].p_align = 0
              /\ program_headers_filtered[i].p_offset
                    >= program_headers_filtered[i - 1].p_offset
                       + program_headers_filtered[i - 1].p_filesz

\* A list in which an offset had to be rounded up.
C4_Witness ==
    /\ Filtered
    /\ Len(program_headers_filtered) = 3
    /\ program_headers_filtered[3].p_align = 16
    /\ program_headers_filtered[3].p_offset
          > program_headers_filtered[2].p_offset + program_headers_filtered[2].p_filesz

\* C5: FilterSegments keeps the length and order of the list and entry 0; for
\* every later entry it keeps type, flags, vaddr, memsz and align, and the
\* file size is 0 when the entry is a LOAD whose exact (vaddr, vaddr + memsz)
\* is a key of the file mappings, and the original file size otherwise.
C5_FilterKeepsAllButMappedLoads ==
    Filtered =>
        /\ Len(program_headers_filtered) = Len(program_headers)
        /\ program_headers_filtered[1] = program_headers[1]
        /\ \A i \in 2..Len(program_headers) :
              LET in  == program_headers[i]
                  out == program_headers_filtered[i]
              IN  /\ out.p_type = in.p_type
                  /\ out.p_flags = in.p_flags
                  /\ out.p_vaddr = in.p_vaddr
                  /\ out.p_memsz = in.p_memsz
                  /\ out.p_align = in.p_align
                  /\ out.p_filesz =
                        IF in.p_type = PT_LOAD
                           /\ << in.p_vaddr, in.p_vaddr + in.p_memsz >>
                                 \in DOMAIN file_mappings
                        THEN 0 ELSE in.p_filesz

\* A list with a mapped LOAD (dropped) and then an entry of another type over
\* the same mapped range (kept).
C5_Witness ==
    /\ Filtered
    /\ Len(program_headers) = 3
    /\ program_headers[2].p_type = PT_LOAD
    /\ program_headers[2].p_filesz > 0
    /\ program_headers_filtered[2].p_filesz = 0
    /\ program_headers[3].p_type # PT_LOAD
    /\ FileRange(program_headers[3]) \in DOMAIN file_mappings
    /\ program_headers_filtered[3].p_filesz = program_headers[3].p_filesz

(***************************************************************************)
(* GetFileMappings on its own: streams whose NT_FILE description is any    *)
(* prefix of an encoded table, run up to the end of GetFileMappings.       *)
(***************************************************************************)
EntryPool ==
    { FileEntry(16, 32, 1, << 97 >>),
      FileEntry(16, 32, 2, << 98, 99 >>),
      FileEntry(48, 64, 0, << 100 >>) }

NoteTables == SeqsUpTo(EntryPool, MaxFileCount)

Prefixes(bytes) == { SubSeq(bytes, 1, n) : n \in 0..Len(bytes) }

NoteStreams ==
    { CoreStream(SizeofEhdr, << AuxvNote, [type |-> NT_FILE, desc |-> desc] >>,
                 << SegAnonymous >>, 0) :
          desc \in UNION { Prefixes(EncodeFileNote(4096, t)) : t \in NoteTables }
                    \cup { EncodeLong(-2) \o EncodeLong(4096),
                           EncodeFileNote(4096, << FileEntry(16, 32, -2, << 97 >>) >>),
                           EncodeFileNote(4096, << FileEntry(65536, 1048576, 3, << 97 >>) >>) } }

InitNotes == InitWith(NoteStreams, { NoFile }, { << NoFile, NoFile >> })

NextNotes ==
    \/ OpenDest
    \/ DoReadUntilNote
    \/ DoGetFileMappings

SpecNotes == InitNotes /\ [][NextNotes]_vars

MappingsBuilt == pc = "filter_segments"

FileNoteDesc == note_buf.notes[LocateNote(note_buf.notes, NT_FILE, 1)].desc

\* The last entry of the table with the given key.
LastWith(table, key) ==
    LET at == { i \in 1..Len(table) : << table[i].start, table[i].end >> = key }
    IN  table[CHOOSE i \in at : \A j \in at : j <= i]

\* C6: the file mappings hold, under every key, exactly the byte offset and
\* the path of the last table entry with that key.
C6_LastEntryWins ==
    MappingsBuilt =>
        \A t \in NoteTables :
            FileNoteDesc = EncodeFileNote(4096, t) =>
                /\ DOMAIN file_mappings = { << t[i].start, t[i].end >> : i \in 1..Len(t) }
                /\ \A key \in DOMAIN file_mappings :
                      /\ file_mappings[key].offset = LastWith(t, key).pgoff * 4096
                      /\ file_mappings[key].path = LastWith(t, key).path

\* Decoding the description reads past its end: the two leading words, the
\* file_count triples or the file_count terminated paths do not all fit.
ReadsBeyondEnd(desc) ==
    \/ Len(desc) < 2 * SizeofLong
    \/ LET file_count == LongValue(SubSeq(desc, 1, SizeofLong))
           names_at   == SizeofLong * (2 + 3 * file_count)
       IN  /\ file_count > 0
           /\ \/ Len(desc) < names_at
              \/ Cardinality({ p \in (names_at + 1)..Len(desc) : desc[p] = 0 })
                    < file_count

\* C7: GetFileMappings never succeeds on a description it had to read beyond
\* the end of.
C7_TruncatedNoteIsRejected ==
    MappingsBuilt => ~ReadsBeyondEnd(FileNoteDesc)

(***************************************************************************)
(* One FdReader under any sequence of Read, CopyTo and Seek calls.         *)
(***************************************************************************)
Sizes == 0..(MaxStreamLen + 1)
Faults == { NoFault } \cup 0..MaxStreamLen

Called(op, arg, r) ==
    /\ pc = "reader"
    /\ reader' = r.reader
    /\ last_call' = [op |-> op, arg |-> arg, ok |-> r.ok, before |-> reader]
    /\ UNCHANGED << pc, src, dest_file, dest_on_entry, auxv_file, maps_file,
                    elf_header, program_headers, note_buf, file_mappings,
                    program_headers_filtered, coredump_size_limit_,
                    expected_coredump_size_, idx, result >>

CallRead ==
    \E num_bytes \in Sizes, fault \in Faults :
        Called("Read", num_bytes, ReaderRead(reader, num_bytes, src.len, fault))

CallCopyTo ==
    \E num_bytes \in Sizes, fault \in Faults :
        \E rd \in ReadLimits(num_bytes) :
            \/ Called("CopyTo", num_bytes,
                      ReaderCopyTo(reader, FALSE, num_bytes, src.len, fault, NoFault, rd))
            \/ \E wfault \in WriteFaults(num_bytes) :
                  Called("CopyTo", num_bytes,
                         ReaderCopyTo(reader, TRUE, num_bytes, src.len, fault, wfault, rd))

CallSeek ==
    \E offset \in Sizes, fault \in Faults :
        Called("Seek", offset, ReaderSeek(reader, offset, src.len, fault))

InitReader ==
    /\ pc = "reader"
    /\ src \in { Stream(NoHeader, << >>, << >>, len) : len \in 0..MaxStreamLen }
    /\ reader = NewReader
    /\ dest_file = NoFile
    /\ dest_on_entry = NoFile
    /\ auxv_file = NoFile
    /\ maps_file = NoFile
    /\ elf_header = NoHeader
    /\ program_headers = << >>
    /\ note_buf = NoNote
    /\ file_mappings = NoMappings
    /\ program_headers_filtered = << >>
    /\ coredump_size_limit_ = Unset
    /\ expected_coredump_size_ = Unset
    /\ idx = 0
    /\ result = 0
    /\ last_call = NoCall

NextReader ==
    \/ CallRead
    \/ CallCopyTo
    \/ CallSeek

SpecReader == InitReader /\ [][NextReader]_vars

\* C9: no call makes bytes_read_ smaller; Seek to an offset below bytes_read_
\* fails, reads nothing and leaves bytes_read_ alone; a Seek to an offset at
\* or above bytes_read_ that succeeds leaves bytes_read_ at that offset.
C9_ReaderOnlyMovesForward ==
    /\ reader.bytes_read_ >= last_call.before.bytes_read_
    /\ (last_call.op = "Seek" /\ last_call.arg < last_call.before.bytes_read_) =>
          /\ ~last_call.ok
          /\ reader.pos = last_call.before.pos
          /\ reader.bytes_read_ = last_call.before.bytes_read_
    /\ (last_call.op = "Seek" /\ last_call.arg >= last_call.before.bytes_read_
          /\ last_call.ok) =>
          reader.bytes_read_ = last_call.arg

\* A Seek back to an offset the reader had passed, after a Seek forward.
C9_Witness ==
    /\ last_call.op = "Seek"
    /\ last_call.before.bytes_read_ = 3
    /\ last_call.arg = 1
    /\ ~last_call.ok

====
